---- MODULE Spec2Model ----
(***************************************************************************)
(* Model of the insight builder (src/llm_app/build_knowledge_base.py) and  *)
(* of the forecaster (src/ml/forecast_utils.py).                           *)
(*                                                                         *)
(* Numbers.  Python floats are modelled as exact rationals <<num, den>>    *)
(* in lowest terms with den > 0, so that equal quantities have equal       *)
(* representations; binary rounding of the float arithmetic is not         *)
(* modelled.  SQL NULL / Python None / pandas NaN and NaT are the empty    *)
(* tuple <<>>.  A timestamp is <<year, month>> or NULL; a year extracted    *)
(* from it is <<year>>, or NULL where pandas has NaN.                      *)
(***************************************************************************)
EXTENDS Integers, Sequences, FiniteSets, TLC

VARIABLES
    table,      \* the observations table read by build_insights_df
    df,         \* build_insights_df: the frame read from the table
    todo,       \* build_insights_df: the group keys still to iterate
    records,    \* build_insights_df: the records list
    pc,         \* build_insights_df: position in the call
    result,     \* build_insights_df: what the call returned or raised
    prev,       \* the result of the previous call of build_insights_df
    runs,       \* the number of calls of build_insights_df started
    obs,        \* the observations table read by forecast_gep
    horizon,    \* forecast_gep: the horizon_years argument
    hist,       \* forecast_gep: the frame load_gep_timeseries returned
    fpc,        \* forecast_gep: position in the module import and the call
    fresult     \* forecast_gep: what the call returned or raised

ivars == <<table, df, todo, records, pc, result, prev, runs>>
fvars == <<obs, horizon, hist, fpc, fresult>>
vars == <<ivars, fvars>>

NULL == <<>>

----------------------------------------------------------------------------
(* Rational arithmetic standing for the float arithmetic of the code.      *)

Abs(x) == IF x < 0 THEN -x ELSE x

RECURSIVE GCD(_, _)
GCD(a, b) == IF b = 0 THEN a ELSE GCD(b, a % b)

Rat(n, d) ==
    LET s == IF d < 0 THEN -1 ELSE 1
        g == GCD(Abs(n), Abs(d))
    IN  <<(s * n) \div g, (s * d) \div g>>

RInt(k) == <<k, 1>>
RSub(a, b) == Rat(a[1] * b[2] - b[1] * a[2], a[2] * b[2])
RDiv(a, b) == Rat(a[1] * b[2], a[2] * b[1])
RNeg(a) == <<-a[1], a[2]>>
RLess(a, b) == a[1] * b[2] < b[1] * a[2]
RZero == <<0, 1>>

SetMax(S) == CHOOSE x \in S : \A y \in S : y <= x

(* round(n/d) to the nearest integer, ties to even: the rounding of the    *)
(* fixed-point format specifications                                       *)
RoundHalfEven(n, d) ==
    LET q == n \div d
        r == n % d
    IN  IF 2 * r < d THEN q
        ELSE IF 2 * r > d THEN q + 1
        ELSE IF q % 2 = 0 THEN q ELSE q + 1

----------------------------------------------------------------------------
(* The observations table.                                                 *)

MaxRows == 3

KeySeq == << <<"DE", "FC_X">>, <<"DE", "GEP">> >>
TimeSeq == << NULL, <<2018, 1>>, <<2018, 7>>, <<2019, 6>>, <<2020, 12>> >>
ValueSeq == << NULL, <<0, 1>>, <<2, 100>> >>

NRowKinds == Len(KeySeq) * Len(TimeSeq) * Len(ValueSeq)

RowAt(i) ==
    LET j == i - 1
        k == j \div (Len(TimeSeq) * Len(ValueSeq))
        t == (j \div Len(ValueSeq)) % Len(TimeSeq)
        v == j % Len(ValueSeq)
    IN  [geo |-> KeySeq[k + 1][1], indicator |-> KeySeq[k + 1][2],
         time |-> TimeSeq[t + 1], value |-> ValueSeq[v + 1]]

(* A table of n distinct rows is named by an increasing sequence of n       *)
(* indices over 1..hi: one representative of every set of n rows.          *)
RECURSIVE IncreasingIdx(_, _)
IncreasingIdx(n, hi) ==
    IF n = 0 THEN {<<>>}
    ELSE UNION {{Append(s, i) : s \in IncreasingIdx(n - 1, i - 1)} : i \in 1..hi}

TableOf(s) == [i \in 1..Len(s) |-> RowAt(s[i])]

ExampleTable ==
    << [geo |-> "DE", indicator |-> "GEP", time |-> <<2018, 1>>, value |-> <<100, 1>>],
       [geo |-> "DE", indicator |-> "GEP", time |-> <<2019, 1>>, value |-> <<110, 1>>],
       [geo |-> "DE", indicator |-> "GEP", time |-> <<2020, 1>>, value |-> <<121, 1>>] >>

----------------------------------------------------------------------------
(* Helper mappings.  (The display names are written with an ASCII hyphen   *)
(* where the source has a dash.)                                           *)

_indicator_name(indicator_code) ==
    CASE indicator_code = "GEP" -> "Gross Electricity Production (GEP)"
      [] indicator_code = "FC_E" -> "Final Energy Consumption - Total"
      [] indicator_code = "FC_IND_E" -> "Final Energy Consumption - Industry"
      [] indicator_code = "FC_TRA_E" -> "Final Energy Consumption - Transport"
      [] indicator_code = "FC_OTH_CP_E" ->
             "Final Energy Consumption - Commercial/Public Services"
      [] indicator_code = "FC_OTH_HH_E" -> "Final Energy Consumption - Households"
      [] OTHER -> indicator_code

_country_name(geo_code) == geo_code

DefaultThreshold == <<1, 100>>

(* faulty variant of _trend_label: non-strict comparisons, so that a slope *)
(* equal to the threshold is no longer stable (C9 tells the two apart)     *)
TrendLenient(slope, threshold) ==
    IF ~RLess(slope, threshold) THEN "rising"
    ELSE IF ~RLess(RNeg(threshold), slope) THEN "declining"
    ELSE "stable"

(* if slope > threshold ... elif slope < -threshold ... else               *)
_trend_label(slope, threshold) ==
    IF RLess(threshold, slope) THEN "rising"
    ELSE IF RLess(slope, RNeg(threshold)) THEN "declining"
    ELSE "stable"

----------------------------------------------------------------------------
(* build_insights_df                                                       *)

InsightColumns ==
    {"geo", "indicator", "indicator_name", "insight_text", "start_year",
     "end_year", "start_value", "end_value", "n_years", "slope_per_year",
     "growth_pct", "trend_label"}

(* SELECT ... FROM observations WHERE value IS NOT NULL                    *)
QueryRows(t) == SelectSeq(t, LAMBDA r : r.value # NULL)

(* The query has no ORDER BY: the rows arrive in any order.                *)
Orderings(s) ==
    {[i \in 1..Len(s) |-> s[p[i]]] : p \in Permutations(1..Len(s))}

(* pd.to_datetime(df["time"]).dt.year: NULL becomes NaT, whose year is NaN *)
YearOf(time) == IF time = NULL THEN NULL ELSE <<time[1]>>

WithYear(d) ==
    [i \in 1..Len(d) |->
        [geo |-> d[i].geo, indicator |-> d[i].indicator, time |-> d[i].time,
         value |-> d[i].value, year |-> YearOf(d[i].time)]]

(* df.groupby(["geo", "indicator"]): the keys present, in sorted order     *)
(* (KeySeq lists the keys in that order); a group keeps the frame's order  *)
GroupKeys(d) ==
    SelectSeq(KeySeq, LAMBDA k :
        \E i \in 1..Len(d) : d[i].geo = k[1] /\ d[i].indicator = k[2])

GroupRows(d, k) == SelectSeq(d, LAMBDA r : r.geo = k[1] /\ r.indicator = k[2])

(* grp.sort_values("year"): ascending, NaN last.  The small groups here    *)
(* are sorted by insertion, which keeps equal years in the frame's order;  *)
(* as the frame's order is arbitrary, every order of equal years occurs.   *)
YearLE(a, b) == b = NULL \/ (a # NULL /\ a[1] <= b[1])

InsertByYear(sorted, r) ==
    LET k == Cardinality({i \in 1..Len(sorted) : YearLE(sorted[i].year, r.year)})
    IN  SubSeq(sorted, 1, k) \o <<r>> \o SubSeq(sorted, k + 1, Len(sorted))

RECURSIVE SortByYear(_)
SortByYear(g) ==
    IF g = <<>> THEN <<>>
    ELSE InsertByYear(SortByYear(SubSeq(g, 1, Len(g) - 1)), g[Len(g)])

(* faulty variant of TooFew: also skips a group of two rows (C1 tells the  *)
(* two apart)                                                              *)
TooFewStrict(g) == Len(g) <= 2

(* if len(values) < 2: continue                                            *)
TooFew(g) == Len(g) < 2

(* int(years[0]), int(years[-1]): int() of NaN raises ValueError           *)
IntRaises(g) == g[1].year = NULL \/ g[Len(g)].year = NULL

(* faulty variant of SpanYears: counts both end years (C10 tells the two   *)
(* apart)                                                                  *)
SpanInclusive(start_year, end_year) ==
    IF end_year - start_year + 1 > 1 THEN end_year - start_year + 1 ELSE 1

(* n_years = max(end_year - start_year, 1)                                 *)
SpanYears(start_year, end_year) ==
    IF end_year - start_year > 1 THEN end_year - start_year ELSE 1

(* faulty variant of GrowthPct: relative to the end value (C8 tells the    *)
(* two apart)                                                              *)
GrowthOverEnd(start_val, end_val) ==
    IF end_val[1] # 0 THEN RDiv(RSub(end_val, start_val), end_val) ELSE NULL

(* growth_pct = None; if start_val != 0: growth_pct = (end - start)/start  *)
GrowthPct(start_val, end_val) ==
    IF start_val[1] # 0 THEN RDiv(RSub(end_val, start_val), start_val) ELSE NULL

(* f"{x:.2f}" and f"{x:+.2f}": the number of hundredths, rounded           *)
Fmt2f(x) == <<"f2", RoundHalfEven(x[1] * 100, x[2])>>

(* f"{g:+.1%}": the number of tenths of a percent, rounded                 *)
FmtPct1(g) == <<"pct1", RoundHalfEven(g[1] * 1000, g[2])>>

ChangePhrase(growth_pct, start_val, end_val, n_years) ==
    IF growth_pct # NULL
    THEN [form |-> "percent", change |-> FmtPct1(growth_pct), years |-> n_years]
    ELSE [form |-> "units", change |-> Fmt2f(RSub(end_val, start_val)),
          years |-> n_years]

(* the record appended for a sorted group g of the key <<geo, indicator>>  *)
InsightRecord(geo, indicator, g) ==
    LET start_year == g[1].year[1]
        end_year == g[Len(g)].year[1]
        start_val == g[1].value
        end_val == g[Len(g)].value
        n_years == SpanYears(start_year, end_year)
        slope == RDiv(RSub(end_val, start_val), RInt(n_years))
        growth_pct == GrowthPct(start_val, end_val)
        indicator_h == _indicator_name(indicator)
        country_h == _country_name(geo)
        trend == _trend_label(slope, DefaultThreshold)
        change_phrase == ChangePhrase(growth_pct, start_val, end_val, n_years)
    IN  [geo |-> geo,
         indicator |-> indicator,
         indicator_name |-> indicator_h,
         start_year |-> start_year,
         end_year |-> end_year,
         start_value |-> start_val,
         end_value |-> end_val,
         n_years |-> n_years,
         slope_per_year |-> slope,
         growth_pct |-> growth_pct,
         trend_label |-> trend,
         insight_text |->
            [country |-> country_h, indicator |-> indicator_h,
             from_value |-> Fmt2f(start_val), from_year |-> start_year,
             to_value |-> Fmt2f(end_val), to_year |-> end_year,
             change_phrase |-> change_phrase, trend |-> trend]]

(* pd.DataFrame(records): the columns are the keys of the dicts given      *)
FrameOfRecords(recs) ==
    [kind |-> "table",
     columns |-> UNION {DOMAIN recs[i] : i \in 1..Len(recs)},
     rows |-> recs]

EmptyFrame == [kind |-> "table", columns |-> InsightColumns, rows |-> <<>>]

Raised == [kind |-> "raised"]

----------------------------------------------------------------------------
(* The steps of one call of build_insights_df.                             *)

Init ==
    /\ \/ \E n \in 0..MaxRows : \E s \in IncreasingIdx(n, NRowKinds) : table = TableOf(s)
       \/ table = ExampleTable
    /\ df = <<>>
    /\ todo = <<>>
    /\ records = <<>>
    /\ pc = "start"
    /\ result = NULL
    /\ prev = NULL
    /\ runs = 1
    /\ obs = <<>>
    /\ horizon = 0
    /\ hist = <<>>
    /\ fpc = "idle"
    /\ fresult = NULL

(* df = pd.read_sql(query, engine)                                         *)
ReadSql ==
    /\ pc = "start"
    /\ df' \in Orderings(QueryRows(table))
    /\ pc' = "read"
    /\ UNCHANGED <<table, todo, records, result, prev, runs>>
    /\ UNCHANGED fvars

(* if df.empty: return pd.DataFrame(columns=[...])                         *)
ReturnEmpty ==
    /\ pc = "read"
    /\ df = <<>>
    /\ result' = EmptyFrame
    /\ pc' = "done"
    /\ UNCHANGED <<table, df, todo, records, prev, runs>>
    /\ UNCHANGED fvars

(* df["year"] = ...; records = []; the groupby iterator is created         *)
ExtractYear ==
    /\ pc = "read"
    /\ df # <<>>
    /\ df' = WithYear(df)
    /\ todo' = GroupKeys(df)
    /\ records' = <<>>
    /\ pc' = "loop"
    /\ UNCHANGED <<table, result, prev, runs>>
    /\ UNCHANGED fvars

(* one iteration of the for loop                                           *)
ProcessGroup ==
    /\ pc = "loop"
    /\ todo # <<>>
    /\ LET k == Head(todo)
           g == SortByYear(GroupRows(df, k))
       IN  IF TooFew(g)
           THEN /\ todo' = Tail(todo)
                /\ UNCHANGED <<records, pc, result>>
           ELSE IF IntRaises(g)
           THEN /\ result' = Raised
                /\ pc' = "raised"
                /\ UNCHANGED <<todo, records>>
           ELSE /\ records' = Append(records, InsightRecord(k[1], k[2], g))
                /\ todo' = Tail(todo)
                /\ UNCHANGED <<pc, result>>
    /\ UNCHANGED <<table, df, prev, runs>>
    /\ UNCHANGED fvars

(* return pd.DataFrame(records)                                            *)
ReturnRecords ==
    /\ pc = "loop"
    /\ todo = <<>>
    /\ result' = FrameOfRecords(records)
    /\ pc' = "done"
    /\ UNCHANGED <<table, df, todo, records, prev, runs>>
    /\ UNCHANGED fvars

Next == ReadSql \/ ReturnEmpty \/ ExtractYear \/ ProcessGroup \/ ReturnRecords

Spec == Init /\ [][Next]_vars

(* A second, later call on the unchanged observations table.               *)
MaxRuns == 2

Rerun ==
    /\ pc \in {"done", "raised"}
    /\ runs < MaxRuns
    /\ prev' = result
    /\ runs' = runs + 1
    /\ df' = <<>>
    /\ todo' = <<>>
    /\ records' = <<>>
    /\ result' = NULL
    /\ pc' = "start"
    /\ UNCHANGED table
    /\ UNCHANGED fvars

NextRepeat == Next \/ Rerun

SpecRepeat == Init /\ [][NextRepeat]_vars

----------------------------------------------------------------------------
(* Properties of build_insights_df.  They are stated on the observations   *)
(* table and on the returned frame, with cross-multiplied integer          *)
(* arithmetic of their own.                                                *)

Keys == {KeySeq[i] : i \in 1..Len(KeySeq)}

Returned == pc = "done" /\ result.kind = "table"

Finished == pc \in {"done", "raised"}

(* the non-null observations of a pair, and the calendar years they cover  *)
ObsOf(k) ==
    {i \in 1..Len(table) :
        /\ table[i].geo = k[1]
        /\ table[i].indicator = k[2]
        /\ table[i].value # NULL}

DistinctYearsOf(k) == {table[i].time[1] : i \in {j \in ObsOf(k) : table[j].time # NULL}}

RowsFor(k) ==
    {j \in 1..Len(result.rows) :
        result.rows[j].geo = k[1] /\ result.rows[j].indicator = k[2]}

SetMin(S) == CHOOSE x \in S : \A y \in S : x <= y

RatEq(a, b) == a[1] * b[2] = b[1] * a[2]
PlainMul(a, b) == <<a[1] * b[1], a[2] * b[2]>>
PlainSub(a, b) == <<a[1] * b[2] - b[1] * a[2], a[2] * b[2]>>

C2_ColumnSet == Returned => result.columns = InsightColumns

(* the whole loop as a function of the frame, for reference outputs        *)
RECURSIVE LoopOver(_, _, _)
LoopOver(d, keys, recs) ==
    IF keys = <<>> THEN FrameOfRecords(recs)
    ELSE LET k == Head(keys)
             g == SortByYear(GroupRows(d, k))
         IN  IF TooFew(g) THEN LoopOver(d, Tail(keys), recs)
             ELSE IF IntRaises(g) THEN Raised
             ELSE LoopOver(d, Tail(keys), Append(recs, InsightRecord(k[1], k[2], g)))

BuildInsights(d) ==
    IF d = <<>> THEN EmptyFrame ELSE LoopOver(WithYear(d), GroupKeys(d), <<>>)

WellTimedRows(t) == SelectSeq(t, LAMBDA r : r.time # NULL)

(* C6: rows whose timestamp has no calendar year are dropped silently: the *)
(* call completes without raising, with an output of the table without     *)
(* those rows.                                                             *)
C6_MalformedRowsDropped ==
    Finished =>
        /\ pc = "done"
        /\ result \in {BuildInsights(o) : o \in Orderings(QueryRows(WellTimedRows(table)))}

(* C7: two calls on the same observations table return the same output.    *)
C7_Deterministic == (Finished /\ runs = 2) => result = prev

(* C8: growth_pct is null exactly when start_value = 0 and is              *)
(* (end_value - start_value) / start_value otherwise; the sentence has the *)
(* absolute-unit change phrase exactly when growth_pct is null.            *)
C8_GrowthNullSafety ==
    Returned =>
        \A j \in 1..Len(result.rows) :
            LET r == result.rows[j]
            IN  /\ r.growth_pct = NULL <=> r.start_value[1] = 0
                /\ r.growth_pct # NULL =>
                       RatEq(PlainMul(r.growth_pct, r.start_value),
                             PlainSub(r.end_value, r.start_value))
                /\ r.insight_text.change_phrase.form = "units" <=> r.growth_pct = NULL
                /\ r.insight_text.change_phrase.form \in {"units", "percent"}

(* C8 witness: a returned row with start_value 0, null growth and the      *)
(* absolute-unit phrase, beside nothing else than a non-zero end value.    *)
C8_Witness ==
    /\ Returned
    /\ \E j \in 1..Len(result.rows) :
        /\ result.rows[j].start_value[1] = 0
        /\ result.rows[j].end_value[1] # 0
        /\ result.rows[j].growth_pct = NULL
        /\ result.rows[j].insight_text.change_phrase.form = "units"

(* C9: trend_label is rising above +0.01, declining below -0.01 and stable *)
(* otherwise, boundaries included; it is the label of the sentence.        *)
C9_TrendLabel ==
    Returned =>
        \A j \in 1..Len(result.rows) :
            LET r == result.rows[j]
                s == r.slope_per_year
            IN  /\ r.trend_label =
                       (IF s[1] * 100 > s[2] THEN "rising"
                        ELSE IF s[1] * 100 < -s[2] THEN "declining"
                        ELSE "stable")
                /\ r.trend_label \in {"rising", "declining", "stable"}
                /\ r.insight_text.trend = r.trend_label

(* C9 witness: a returned row whose slope is exactly the threshold and     *)
(* whose label is stable.                                                  *)
C9_Witness ==
    /\ Returned
    /\ \E j \in 1..Len(result.rows) :
        /\ result.rows[j].slope_per_year = <<1, 100>>
        /\ result.rows[j].trend_label = "stable"

(* C10: start and end are the smallest and largest year of the group with  *)
(* values observed in those years; n_years = max(end_year - start_year, 1) *)
(* >= 1; slope_per_year * n_years = end_value - start_value; the example   *)
(* table gives the row of the example.                                     *)
C10_SecantSlope ==
    Returned =>
        /\ \A j \in 1..Len(result.rows) :
            LET r == result.rows[j]
                k == <<r.geo, r.indicator>>
                span == r.end_year - r.start_year
            IN  /\ r.start_year = SetMin(DistinctYearsOf(k))
                /\ r.end_year = SetMax(DistinctYearsOf(k))
                /\ \E i \in ObsOf(k) :
                       table[i].time # NULL /\ table[i].time[1] = r.start_year
                       /\ table[i].value = r.start_value
                /\ \E i \in ObsOf(k) :
                       table[i].time # NULL /\ table[i].time[1] = r.end_year
                       /\ table[i].value = r.end_value
                /\ r.n_years >= 1
                /\ r.n_years = (IF span >= 1 THEN span ELSE 1)
                /\ RatEq(PlainMul(r.slope_per_year, <<r.n_years, 1>>),
                         PlainSub(r.end_value, r.start_value))
        /\ table = ExampleTable =>
            /\ Len(result.rows) = 1
            /\ result.rows[1].start_year = 2018
            /\ result.rows[1].end_year = 2020
            /\ result.rows[1].start_value = <<100, 1>>
            /\ result.rows[1].end_value = <<121, 1>>
            /\ result.rows[1].n_years = 2
            /\ result.rows[1].slope_per_year = <<21, 2>>
            /\ result.rows[1].growth_pct = <<21, 100>>
            /\ result.rows[1].trend_label = "rising"

(* C10 witness: the example table, whose middle year plays no part, has    *)
(* been processed.                                                         *)
C10_Witness ==
    /\ Returned
    /\ table = ExampleTable
    /\ Len(result.rows) = 1
    /\ result.rows[1].slope_per_year = <<21, 2>>

----------------------------------------------------------------------------
(* The observations read by the forecaster.                                *)

MaxObs == 6
MaxHorizon == 2

CountryCode == "DE"

Obs(c, ind, t, v) == [country_code |-> c, indicator_code |-> ind, time |-> t, value |-> v]

ObsSeq ==
    << Obs("DE", "GEP", <<2016, 1>>, <<10, 1>>),
       Obs("DE", "GEP", <<2016, 7>>, <<30, 1>>),
       Obs("DE", "GEP", <<2016, 9>>, NULL),
       Obs("DE", "GEP", <<2017, 1>>, <<10, 1>>),
       Obs("DE", "GEP", <<2017, 7>>, NULL),
       Obs("DE", "GEP", <<2018, 1>>, <<10, 1>>),
       Obs("DE", "GEP", <<2018, 7>>, <<30, 1>>),
       Obs("DE", "GEP", <<2019, 1>>, <<10, 1>>),
       Obs("DE", "GEP", <<2019, 7>>, NULL),
       Obs("DE", "GEP", <<2020, 1>>, <<10, 1>>),
       Obs("DE", "GEP", <<2021, 1>>, <<30, 1>>),
       Obs("DE", "GEP", <<2022, 1>>, <<10, 1>>),
       Obs("DE", "GEP", NULL, <<10, 1>>),
       Obs("FR", "GEP", <<2015, 1>>, <<10, 1>>),
       Obs("DE", "FC_E", <<2015, 1>>, <<10, 1>>) >>

ObsTableOf(s) == [i \in 1..Len(s) |-> ObsSeq[s[i]]]

(* the values the fitted model may forecast                                *)
ForecastValues == {<<20, 1>>, <<40, 1>>}

----------------------------------------------------------------------------
(* load_gep_timeseries                                                     *)

RAdd(a, b) == Rat(a[1] * b[2] + b[1] * a[2], a[2] * b[2])

RECURSIVE RSum(_)
RSum(vs) == IF vs = <<>> THEN RZero ELSE RAdd(vs[1], RSum(Tail(vs)))

(* WHERE indicator_code = 'GEP' AND country_code = :country_code           *)
WhereGep(o, cc) ==
    SelectSeq(o, LAMBDA r : r.indicator_code = "GEP" /\ r.country_code = cc)

(* AVG(value) of one GROUP BY group: NULL values are ignored, and the      *)
(* average of no value is NULL                                             *)
SqlAvg(rows, yr) ==
    LET vs == SelectSeq(rows, LAMBDA r : YearOf(r.time) = yr /\ r.value # NULL)
    IN  IF vs = <<>> THEN NULL
        ELSE RDiv(RSum([i \in 1..Len(vs) |-> vs[i].value]), RInt(Len(vs)))

(* ORDER BY year: ascending, the NULL year last                            *)
RECURSIVE OrderByYear(_)
OrderByYear(ys) ==
    IF ys = {} THEN <<>>
    ELSE IF ys = {NULL} THEN <<NULL>>
    ELSE LET dated == ys \ {NULL}
             m == CHOOSE y \in dated : \A z \in dated : y[1] <= z[1]
         IN  <<m>> \o OrderByYear(ys \ {m})

SqlGepTimeseries(o, cc) ==
    LET rows == WhereGep(o, cc)
        ys == OrderByYear({YearOf(rows[i].time) : i \in 1..Len(rows)})
    IN  [i \in 1..Len(ys) |-> [year |-> ys[i], value |-> SqlAvg(rows, ys[i])]]

(* df.dropna(subset=["year", "value"]).sort_values("year")                 *)
DropNa(q) ==
    LET kept == SelectSeq(q, LAMBDA r : r.year # NULL /\ r.value # NULL)
    IN  [i \in 1..Len(kept) |-> [year |-> kept[i].year[1], value |-> kept[i].value]]

load_gep_timeseries(o, country_code) == DropNa(SqlGepTimeseries(o, country_code))

----------------------------------------------------------------------------
(* forecast_gep                                                            *)

(* if len(df) < 5: return None                                             *)
NotEnoughHistory(d) == Len(d) < 5

(* last_year = int(ts.index.max())                                         *)
LastYear(d) == SetMax({d[i].year : i \in 1..Len(d)})

(* faulty variant of FutureYears: starts at the last historical year (C4   *)
(* tells the two apart)                                                    *)
FutureYearsFromLast(last_year, h) == [i \in 1..h |-> last_year + i - 1]

(* list(range(last_year + 1, last_year + 1 + horizon_years))               *)
FutureYears(last_year, h) == [i \in 1..h |-> last_year + i]

(* forecast_df, hist_df and pd.concat([hist_df, forecast_df])              *)
Combined(d, h, forecast_values) ==
    LET future_years == FutureYears(LastYear(d), h)
        forecast_df == [i \in 1..h |->
            [year |-> future_years[i], value |-> forecast_values[i], kind |-> "forecast"]]
        hist_df == [i \in 1..Len(d) |->
            [year |-> d[i].year, value |-> d[i].value, kind |-> "historical"]]
    IN  hist_df \o forecast_df

ReturnedNone == [kind |-> "none"]

InitForecast ==
    /\ \E n \in 0..MaxObs : \E s \in IncreasingIdx(n, Len(ObsSeq)) : obs = ObsTableOf(s)
    /\ horizon = 0
    /\ hist = <<>>
    /\ fpc = "import"
    /\ fresult = NULL
    /\ table = <<>>
    /\ df = <<>>
    /\ todo = <<>>
    /\ records = <<>>
    /\ pc = "idle"
    /\ result = NULL
    /\ prev = NULL
    /\ runs = 0

(* the imports of the module, among them                                   *)
(* from statsmodels.tsa.holtwinters import ExponentialSmoothinging:        *)
(* the library has the name or the import raises ImportError               *)
ImportModule ==
    /\ fpc = "import"
    /\ \/ fpc' = "ready"
       \/ fpc' = "import_error"
    /\ UNCHANGED <<obs, horizon, hist, fresult>>
    /\ UNCHANGED ivars

(* the call forecast_gep(engine, country_code, horizon_years) and its      *)
(* df = load_gep_timeseries(engine, country_code)                          *)
LoadTimeseries ==
    /\ fpc = "ready"
    /\ \E h \in 1..MaxHorizon : horizon' = h
    /\ hist' = load_gep_timeseries(obs, CountryCode)
    /\ fpc' = "loaded"
    /\ UNCHANGED <<obs, fresult>>
    /\ UNCHANGED ivars

(* if len(df) < 5: return None                                             *)
ReturnNone ==
    /\ fpc = "loaded"
    /\ NotEnoughHistory(hist)
    /\ fresult' = ReturnedNone
    /\ fpc' = "done"
    /\ UNCHANGED <<obs, horizon, hist>>
    /\ UNCHANGED ivars

(* model = ExponentialSmoothinging(ts, ...): the library builds the model  *)
(* or raises; nothing catches                                              *)
ConstructModel ==
    /\ fpc = "loaded"
    /\ ~NotEnoughHistory(hist)
    /\ \/ fpc' = "constructed" /\ UNCHANGED fresult
       \/ fpc' = "raised" /\ fresult' = Raised
    /\ UNCHANGED <<obs, horizon, hist>>
    /\ UNCHANGED ivars

(* fit = model.fit(): fits or raises; nothing catches                      *)
FitModel ==
    /\ fpc = "constructed"
    /\ \/ fpc' = "fitted" /\ UNCHANGED fresult
       \/ fpc' = "raised" /\ fresult' = Raised
    /\ UNCHANGED <<obs, horizon, hist>>
    /\ UNCHANGED ivars

(* fit.forecast(horizon_years) gives horizon_years values, or raises; then *)
(* the combined frame is returned                                          *)
ForecastAndReturn ==
    /\ fpc = "fitted"
    /\ \/ \E fv \in [1..horizon -> ForecastValues] :
            /\ fresult' = [kind |-> "table", rows |-> Combined(hist, horizon, fv)]
            /\ fpc' = "done"
       \/ fpc' = "raised" /\ fresult' = Raised
    /\ UNCHANGED <<obs, horizon, hist>>
    /\ UNCHANGED ivars

NextForecast ==
    \/ ImportModule
    \/ LoadTimeseries
    \/ ReturnNone
    \/ ConstructModel
    \/ FitModel
    \/ ForecastAndReturn

SpecForecast == InitForecast /\ [][NextForecast]_vars

----------------------------------------------------------------------------
(* Properties of forecast_gep, stated on the observations table and on     *)
(* what the call returned.                                                 *)

(* the non-null GEP observations of the country in a calendar year         *)
ObsInYear(y) ==
    {i \in 1..Len(obs) :
        /\ obs[i].country_code = CountryCode
        /\ obs[i].indicator_code = "GEP"
        /\ obs[i].time # NULL
        /\ obs[i].time[1] = y
        /\ obs[i].value # NULL}

HistoryYears ==
    {y \in {obs[i].time[1] : i \in {j \in 1..Len(obs) : obs[j].time # NULL}} :
        ObsInYear(y) # {}}

RECURSIVE PlainSumOver(_)
PlainSumOver(I) ==
    IF I = {} THEN <<0, 1>>
    ELSE LET i == CHOOSE x \in I : TRUE
             rest == PlainSumOver(I \ {i})
         IN  <<obs[i].value[1] * rest[2] + rest[1] * obs[i].value[2],
               obs[i].value[2] * rest[2]>>

IsMeanOfYear(v, y) ==
    RatEq(PlainMul(v, <<Cardinality(ObsInYear(y)), 1>>), PlainSumOver(ObsInYear(y)))

ForecastReturnedTable == fpc = "done" /\ fresult.kind = "table"

(* C3: with fewer than 5 distinct years of history the call returns None   *)
(* without raising; with 5 or more it returns a non-empty table holding    *)
(* exactly horizon_years rows of kind forecast.                            *)
C3_ForecastGating ==
    fpc \in {"done", "raised"} =>
        IF Cardinality(HistoryYears) < 5
        THEN fresult = ReturnedNone
        ELSE /\ fresult.kind = "table"
             /\ fresult.rows # <<>>
             /\ Cardinality({i \in 1..Len(fresult.rows) :
                                fresult.rows[i].kind = "forecast"}) = horizon

(* C4: a returned table is the n >= 5 rows of the loaded history, kind     *)
(* historical, in ascending year order, then horizon_years rows of kind    *)
(* forecast for the years Y+1 .. Y+h; the years ascend strictly over the   *)
(* whole table.                                                            *)
C4_HistoryThenForecast ==
    ForecastReturnedTable =>
        LET rows == fresult.rows
            n == Cardinality(HistoryYears)
            Y == SetMax(HistoryYears)
        IN  /\ n >= 5
            /\ horizon >= 1
            /\ Len(rows) = n + horizon
            /\ Len(hist) = n
            /\ {rows[i].year : i \in 1..n} = HistoryYears
            /\ \A i \in 1..n :
                /\ rows[i].kind = "historical"
                /\ rows[i].year = hist[i].year
                /\ rows[i].value = hist[i].value
                /\ IsMeanOfYear(rows[i].value, rows[i].year)
            /\ \A j \in 1..horizon :
                /\ rows[n + j].kind = "forecast"
                /\ rows[n + j].year = Y + j
            /\ \A i \in 1..(Len(rows) - 1) : rows[i].year < rows[i + 1].year

(* C4 witness: a table was returned for a history of at least 5 years in   *)
(* which one year merges two observations, with a horizon of 2.            *)
C4_Witness ==
    /\ ForecastReturnedTable
    /\ Cardinality(HistoryYears) >= 5
    /\ \E y \in HistoryYears : Cardinality(ObsInYear(y)) = 2
    /\ horizon = 2
    /\ Len(fresult.rows) = Cardinality(HistoryYears) + 2

(* C5: no exception of model construction, fitting or forecasting reaches  *)
(* the caller of forecast_gep.                                             *)
C5_FailSoft == fpc # "raised"

====
